---- MODULE Spec2Model ----
(***************************************************************************)
(* Model of export_gibraltar_tariff.py: the line classifier of             *)
(* extract_hierarchy_from_text, the title lookup of extract_chapter_name   *)
(* and the chapter loop, global dedupe and the two writes of main.         *)
(*                                                                         *)
(* A Python str is a sequence of one-character strings; the empty str is   *)
(* <<>>.  A text is held as the sequence text.splitlines() produces.       *)
(* Python indexes from 0, the model from 1: the cursor i of the model is   *)
(* the cursor of the code plus one.                                        *)
(***************************************************************************)
EXTENDS Integers, Sequences, FiniteSets, TLC

(***************************************************************************)
(* Character classes                                                       *)
(***************************************************************************)
Digit == {"0", "1", "2", "3", "4", "5", "6", "7", "8", "9"}

Letter ==
  {"a", "b", "c", "d", "e", "f", "g", "h", "i", "j", "k", "l", "m",
   "n", "o", "p", "q", "r", "s", "t", "u", "v", "w", "x", "y", "z",
   "A", "B", "C", "D", "E", "F", "G", "H", "I", "J", "K", "L", "M",
   "N", "O", "P", "Q", "R", "S", "T", "U", "V", "W", "X", "Y", "Z"}

\* \w of the re module: alphanumerics and the underscore
WordChar == Digit \cup Letter \cup {"_"}

\* the characters str.strip() removes that can occur inside one line
Whitespace == {" ", "\t"}

\* the character class [0-9*] of CODE_PATTERN
CodeChar == Digit \cup {"*"}

\* the argument of lstrip(" -<en dash><em dash>:"); the two dashes are
\* written u2013 and u2014
SeparatorChars == {" ", "-", "u2013", "u2014", ":"}

(***************************************************************************)
(* str methods                                                             *)
(***************************************************************************)
RECURSIVE lstrip(_, _)
lstrip(s, chars) ==
  IF s # <<>> /\ Head(s) \in chars THEN lstrip(Tail(s), chars) ELSE s

RECURSIVE rstrip(_, _)
rstrip(s, chars) ==
  IF s # <<>> /\ s[Len(s)] \in chars
    THEN rstrip(SubSeq(s, 1, Len(s) - 1), chars)
    ELSE s

strip(s) == rstrip(lstrip(s, Whitespace), Whitespace)

startswith(s, prefix) ==
  Len(prefix) <= Len(s) /\ SubSeq(s, 1, Len(prefix)) = prefix

isdigit(s) == s # <<>> /\ \A k \in 1..Len(s) : s[k] \in Digit

\* `sub in s` for str operands
contains(s, sub) ==
  \E p \in 1..(Len(s) + 1) :
    p + Len(sub) - 1 <= Len(s) /\ SubSeq(s, p, p + Len(sub) - 1) = sub

(***************************************************************************)
(* CODE_PATTERN = \b[0-9*]{10}-[0-9*]{2}-[0-9*]{2}\b                       *)
(***************************************************************************)
\* \b between s[p] and s[p+1] (p = 0: before the first character,
\* p = Len(s): after the last): exactly one side is a word character
WordBoundary(s, p) ==
  LET before == p >= 1 /\ s[p] \in WordChar
      after  == p + 1 <= Len(s) /\ s[p + 1] \in WordChar
  IN  before # after

\* variant: nine characters in the first group
MatchAtShort(s, p) ==
  /\ p >= 1
  /\ p + 14 <= Len(s)
  /\ WordBoundary(s, p - 1)
  /\ \A k \in 0..8 : s[p + k] \in CodeChar
  /\ s[p + 9] = "-"
  /\ s[p + 10] \in CodeChar /\ s[p + 11] \in CodeChar
  /\ s[p + 12] = "-"
  /\ s[p + 13] \in CodeChar /\ s[p + 14] \in CodeChar
  /\ WordBoundary(s, p + 14)

\* the pattern matches s with its first character at index p
MatchAt(s, p) ==
  /\ p >= 1
  /\ p + 15 <= Len(s)
  /\ WordBoundary(s, p - 1)
  /\ \A k \in 0..9 : s[p + k] \in CodeChar
  /\ s[p + 10] = "-"
  /\ s[p + 11] \in CodeChar /\ s[p + 12] \in CodeChar
  /\ s[p + 13] = "-"
  /\ s[p + 14] \in CodeChar /\ s[p + 15] \in CodeChar
  /\ WordBoundary(s, p + 15)

\* CODE_PATTERN.match(s): a match anchored at the start of s
CODE_PATTERN_match(s) == MatchAt(s, 1)

\* CODE_PATTERN.finditer(s): the start indexes of the leftmost,
\* non-overlapping matches, searching on from the end of each match
RECURSIVE finditer_from(_, _)
finditer_from(s, p) ==
  IF p + 15 > Len(s) THEN <<>>
  ELSE IF MatchAt(s, p) THEN <<p>> \o finditer_from(s, p + 16)
  ELSE finditer_from(s, p + 1)

finditer(s) == finditer_from(s, 1)

(***************************************************************************)
(* f"{chapter:02d}"                                                        *)
(***************************************************************************)
DigitChar(d) ==
  CASE d = 0 -> "0" [] d = 1 -> "1" [] d = 2 -> "2" [] d = 3 -> "3"
    [] d = 4 -> "4" [] d = 5 -> "5" [] d = 6 -> "6" [] d = 7 -> "7"
    [] d = 8 -> "8" [] d = 9 -> "9"

RECURSIVE Decimal(_)
Decimal(n) ==
  IF n < 10 THEN <<DigitChar(n)>>
  ELSE Append(Decimal(n \div 10), DigitChar(n % 10))

format_02d(n) == IF n < 10 THEN <<"0">> \o Decimal(n) ELSE Decimal(n)

(***************************************************************************)
(* Literals of the source                                                  *)
(***************************************************************************)
CHAPTER_ == <<"C", "H", "A", "P", "T", "E", "R", " ">>

HeaderLines ==
  { <<"C", "h", "a", "p", "t", "e", "r">>,
    <<"H", "e", "a", "d", "i", "n", "g">>,
    <<"A", "r", "t", "i", "c", "l", "e", " ", "D", "e", "s", "c", "r", "i",
      "p", "t", "i", "o", "n">> }

(***************************************************************************)
(* Deduplication on the 7-tuple key                                        *)
(***************************************************************************)
\* variant: the key without the chapter
KeyNoChapter(rec) ==
  <<rec.heading, rec.heading_description, rec.subheading,
    rec.subheading_description, rec.code, rec.description>>

KeyOf(rec) ==
  <<rec.chapter, rec.heading, rec.heading_description, rec.subheading,
    rec.subheading_description, rec.code, rec.description>>

\* `if key in seen: continue / seen.add(key) / append(rec)`, the body both
\* dedupe loops share; acc is [seen, out]
\* variant: the `key in seen` test left out
AddAlways(acc, rec) ==
  [seen |-> acc.seen \cup {KeyOf(rec)}, out |-> Append(acc.out, rec)]

AddIfNew(acc, rec) ==
  IF KeyOf(rec) \in acc.seen
    THEN acc
    ELSE [seen |-> acc.seen \cup {KeyOf(rec)}, out |-> Append(acc.out, rec)]

(***************************************************************************)
(* extract_hierarchy_from_text: the locals of one call, as a record st.    *)
(* Besides the locals of the code, st keeps a history of the call:         *)
(*   emitted   every (record, line, match start) the inner loop built,     *)
(*             before the `key in seen` test                               *)
(*   origin    for each element of records, the line and match start that  *)
(*             appended it                                                 *)
(*   visited   the lines the while loop has read as lines[i]               *)
(*   absorbed  the lines read as lines[i + 1] and taken as a description,  *)
(*             with the branch that took them (2 heading, 3 subheading,    *)
(*             4 tariff code)                                              *)
(***************************************************************************)
InitLocals ==
  [ i                       |-> 1,
    current_heading         |-> <<>>,
    current_heading_desc    |-> <<>>,
    current_subheading      |-> <<>>,
    current_subheading_desc |-> <<>>,
    records                 |-> <<>>,
    seen                    |-> {},
    emitted                 |-> <<>>,
    origin                  |-> <<>>,
    visited                 |-> {},
    absorbed                |-> {} ]

\* line 72
IsHeaderLine(line) == startswith(line, CHAPTER_) \/ line \in HeaderLines

\* line 77
IsHeadingLine(line) ==
  Len(line) = 4 /\ isdigit(line) /\ ~CODE_PATTERN_match(line)

\* lines 93-94
IsSubheadingLine(line, current_heading) ==
  /\ Len(line) = 5
  /\ isdigit(line)
  /\ startswith(line, current_heading)
  /\ ~CODE_PATTERN_match(line)

\* lines 84-86 and 99-101: the next line is taken as the description
DescriptionFollows(lines, i) ==
  /\ i + 1 <= Len(lines)
  /\ LET next_line == strip(lines[i + 1])
     IN  /\ next_line # <<>>
         /\ ~isdigit(next_line)
         /\ ~CODE_PATTERN_match(next_line)

\* lines 67-69 and 72-74: `i += 1; continue`
StepSkip(st) ==
  [st EXCEPT !.i = @ + 1, !.visited = @ \cup {st.i}]

\* variant: lines 79 and 81 left out
StepHeadingKeepSubheading(lines, st) ==
  LET line   == strip(lines[st.i])
      absorb == DescriptionFollows(lines, st.i)
  IN  [st EXCEPT
         !.current_heading         = line,
         !.current_heading_desc    =
            IF absorb THEN strip(lines[st.i + 1]) ELSE <<>>,
         !.i                       = IF absorb THEN @ + 2 ELSE @ + 1,
         !.visited                 = @ \cup {st.i},
         !.absorbed                =
            IF absorb THEN @ \cup {[line |-> st.i + 1, step |-> 2]} ELSE @]

\* variant: line 87 reads `line` for `next_line`
StepHeadingDescFromCurrent(lines, st) ==
  LET line   == strip(lines[st.i])
      absorb == DescriptionFollows(lines, st.i)
  IN  [st EXCEPT
         !.current_heading         = line,
         !.current_subheading      = <<>>,
         !.current_heading_desc    = IF absorb THEN line ELSE <<>>,
         !.current_subheading_desc = <<>>,
         !.i                       = IF absorb THEN @ + 2 ELSE @ + 1,
         !.visited                 = @ \cup {st.i},
         !.absorbed                =
            IF absorb THEN @ \cup {[line |-> st.i + 1, step |-> 2]} ELSE @]

\* variant: line 88 left out
StepHeadingNoSkip(lines, st) ==
  LET line   == strip(lines[st.i])
      absorb == DescriptionFollows(lines, st.i)
  IN  [st EXCEPT
         !.current_heading         = line,
         !.current_subheading      = <<>>,
         !.current_heading_desc    =
            IF absorb THEN strip(lines[st.i + 1]) ELSE <<>>,
         !.current_subheading_desc = <<>>,
         !.i                       = @ + 1,
         !.visited                 = @ \cup {st.i},
         !.absorbed                =
            IF absorb THEN @ \cup {[line |-> st.i + 1, step |-> 2]} ELSE @]

\* lines 77-90
StepHeading(lines, st) ==
  LET line   == strip(lines[st.i])
      absorb == DescriptionFollows(lines, st.i)
  IN  [st EXCEPT
         !.current_heading         = line,
         !.current_subheading      = <<>>,
         !.current_heading_desc    =
            IF absorb THEN strip(lines[st.i + 1]) ELSE <<>>,
         !.current_subheading_desc = <<>>,
         !.i                       = IF absorb THEN @ + 2 ELSE @ + 1,
         !.visited                 = @ \cup {st.i},
         !.absorbed                =
            IF absorb THEN @ \cup {[line |-> st.i + 1, step |-> 2]} ELSE @]

\* lines 93-105
StepSubheading(lines, st) ==
  LET line   == strip(lines[st.i])
      absorb == DescriptionFollows(lines, st.i)
  IN  [st EXCEPT
         !.current_subheading      = line,
         !.current_subheading_desc =
            IF absorb THEN strip(lines[st.i + 1]) ELSE <<>>,
         !.i                       = IF absorb THEN @ + 2 ELSE @ + 1,
         !.visited                 = @ \cup {st.i},
         !.absorbed                =
            IF absorb THEN @ \cup {[line |-> st.i + 1, step |-> 3]} ELSE @]

\* lines 112-113: the rest of the line after a match that starts at p
Remainder(line, p) ==
  lstrip(strip(SubSeq(line, p + 16, Len(line))), SeparatorChars)

\* variant: the CODE_PATTERN.match test of line 117 left out
UsesNextLineAlways(lines, i, p) ==
  /\ Remainder(strip(lines[i]), p) = <<>>
  /\ i + 1 <= Len(lines)
  /\ strip(lines[i + 1]) # <<>>

\* lines 115-117: the next line stands in for an empty remainder
UsesNextLine(lines, i, p) ==
  /\ Remainder(strip(lines[i]), p) = <<>>
  /\ i + 1 <= Len(lines)
  /\ LET next_line == strip(lines[i + 1])
     IN  next_line # <<>> /\ ~CODE_PATTERN_match(next_line)

\* lines 112-118
Description(lines, i, p) ==
  IF UsesNextLine(lines, i, p)
    THEN strip(lines[i + 1])
    ELSE Remainder(strip(lines[i]), p)

\* lines 108-134: the body of the for loop, for the matches that start at
\* the indexes ms
RECURSIVE EmitMatches(_, _, _, _)
EmitMatches(lines, chapter_str, st, ms) ==
  IF ms = <<>> THEN st
  ELSE
    LET line == strip(lines[st.i])
        p    == Head(ms)
        rec  == [ chapter                |-> chapter_str,
                  heading                |-> st.current_heading,
                  heading_description    |-> st.current_heading_desc,
                  subheading             |-> st.current_subheading,
                  subheading_description |-> st.current_subheading_desc,
                  code                   |-> SubSeq(line, p, p + 15),
                  description            |-> Description(lines, st.i, p) ]
        acc  == AddIfNew([seen |-> st.seen, out |-> st.records], rec)
        from == [line |-> st.i, start |-> p]
        next == [st EXCEPT
                   !.seen     = acc.seen,
                   !.records  = acc.out,
                   !.emitted  = Append(@, [rec |-> rec, from |-> from]),
                   !.origin   =
                      IF Len(acc.out) > Len(st.records)
                        THEN Append(@, from) ELSE @,
                   !.absorbed =
                      IF UsesNextLine(lines, st.i, p)
                        THEN @ \cup {[line |-> st.i + 1, step |-> 4]}
                        ELSE @]
    IN  EmitMatches(lines, chapter_str, next, Tail(ms))

\* lines 108-136
StepCodes(lines, chapter_str, st) ==
  LET done == EmitMatches(lines, chapter_str, st, finditer(strip(lines[st.i])))
  IN  [done EXCEPT !.i = @ + 1, !.visited = @ \cup {st.i}]

\* lines 65-136: one iteration of the while loop
LoopBody(lines, chapter_str, st) ==
  LET line == strip(lines[st.i])
  IN  IF line = <<>> THEN StepSkip(st)
      ELSE IF IsHeaderLine(line) THEN StepSkip(st)
      ELSE IF IsHeadingLine(line) THEN StepHeading(lines, st)
      ELSE IF IsSubheadingLine(line, st.current_heading)
        THEN StepSubheading(lines, st)
      ELSE StepCodes(lines, chapter_str, st)

\* lines 64-138: the while loop, run to its end
RECURSIVE RunLoop(_, _, _)
RunLoop(lines, chapter_str, st) ==
  IF st.i <= Len(lines)
    THEN RunLoop(lines, chapter_str, LoopBody(lines, chapter_str, st))
    ELSE st

\* the locals at `return records`
ExtractCall(lines, chapter) == RunLoop(lines, format_02d(chapter), InitLocals)

extract_hierarchy_from_text(lines, chapter) ==
  ExtractCall(lines, chapter).records

\* lines 37-44
RECURSIVE extract_chapter_name_from(_, _, _)
extract_chapter_name_from(lines, chapter_str, k) ==
  IF k > Len(lines) THEN <<>>
  ELSE LET line == strip(lines[k])
       IN  IF startswith(line, CHAPTER_) /\ contains(line, chapter_str)
             THEN strip(line)
             ELSE extract_chapter_name_from(lines, chapter_str, k + 1)

extract_chapter_name(lines, chapter) ==
  extract_chapter_name_from(lines, format_02d(chapter), 1)

(***************************************************************************)
(* Input lines                                                             *)
(***************************************************************************)
H0101 == <<"0", "1", "0", "1">>
H0102 == <<"0", "1", "0", "2">>
S01012 == <<"0", "1", "0", "1", "2">>
Code21 ==
  <<"0", "1", "0", "1", "2", "1", "0", "0", "0", "0", "-", "0", "0", "-",
    "0", "0">>
Code29 ==
  <<"0", "1", "0", "1", "2", "9", "0", "0", "0", "0", "-", "0", "0", "-",
    "0", "0">>
\* wildcards in the first, in the tenth and last, and in inner positions
CodeStarFirst ==
  <<"*", "1", "0", "1", "2", "1", "0", "0", "0", "0", "-", "0", "0", "-",
    "0", "0">>
CodeStarLast ==
  <<"0", "1", "0", "1", "2", "1", "0", "0", "0", "*", "-", "0", "0", "-",
    "0", "*">>
CodeStarInner ==
  <<"0", "1", "0", "1", "2", "*", "0", "0", "0", "0", "-", "*", "0", "-",
    "0", "0">>
\* nine and eleven characters in the first group
Code9 ==
  <<"0", "1", "0", "1", "2", "1", "0", "0", "0", "-", "0", "0", "-", "0",
    "0">>
Code11 ==
  <<"0", "1", "0", "1", "2", "1", "0", "0", "0", "0", "0", "-", "0", "0",
    "-", "0", "0">>
LiveHorses ==
  <<"L", "i", "v", "e", " ", "h", "o", "r", "s", "e", "s", ",", " ", "a",
    "s", "s", "e", "s", ",", " ", "m", "u", "l", "e", "s", " ", "a", "n",
    "d", " ", "h", "i", "n", "n", "i", "e", "s">>
PureBred ==
  <<"P", "u", "r", "e", "-", "b", "r", "e", "d", " ", "b", "r", "e", "e",
    "d", "i", "n", "g", " ", "a", "n", "i", "m", "a", "l", "s">>
OtherHorses ==
  <<"O", "t", "h", "e", "r", " ", "h", "o", "r", "s", "e", "s">>
Asses == <<"A", "s", "s", "e", "s">>
See == <<"s", "e", "e">>
Sp == <<" ">>
HeadingHeader == <<"H", "e", "a", "d", "i", "n", "g">>
ChapterTitle01 ==
  CHAPTER_ \o <<"0", "1", " ", "L", "I", "V", "E", " ", "A", "N", "I", "M",
                "A", "L", "S">>

\* the lines a text of the hierarchy runs is drawn from
HierarchyLines ==
  { Sp,
    HeadingHeader,
    H0101,
    <<"\t">> \o H0102 \o Sp,
    S01012,
    LiveHorses,
    Code21,
    Code21 \o Sp \o PureBred,
    See \o Sp \o Code29 }

\* the lines a text of the code-pattern runs is drawn from
CodeLines ==
  { Code21 \o Sp \o PureBred,
    Code21,
    OtherHorses,
    CodeStarFirst,
    CodeStarLast \o Sp \o OtherHorses,
    CodeStarInner,
    CodeStarInner \o Sp \o OtherHorses,
    Code29 \o <<"\t", "-", " ">> \o Asses,
    Code9 \o Sp \o Asses,
    Code11,
    <<"x">> \o Code21,
    Code21 \o <<" ", "-", " ", ":", " ">> \o Asses,
    Code21 \o <<"u2013">> \o Asses,
    Code21 \o Sp \o Code29,
    See \o Sp \o Code29,
    Sp,
    ChapterTitle01,
    H0101,
    S01012 }

MaxLines == 4
MaxCodeLines == 2

\* the chapter arguments of the extractor runs
ExtractChapters == {1, 12}

SeqsUpTo(S, n) == UNION {[1..m -> S] : m \in 0..n}

(***************************************************************************)
(* State                                                                   *)
(***************************************************************************)
VARIABLES
  pc,                       \* where control is
  chapter,                  \* the loop variable of main / the argument
  text,                     \* main: what fetch_chapter_text returned
  all_records,
  chapter_records,
  deduped_records,
  hierarchy_outfile,        \* the file at args.hierarchy_outfile
  chapters_outfile,
  log,                      \* history: the fetches, the completed chapter
                            \* bodies and the writes, in order
  fetched,                  \* history: chapter -> outcome of its fetch
  lines,                    \* extract_hierarchy_from_text: text.splitlines()
  i,
  current_heading,
  current_heading_desc,
  current_subheading,
  current_subheading_desc,
  records,
  seen,
  emitted,
  origin,
  visited,
  absorbed

mainVars ==
  <<chapter, text, all_records, chapter_records, deduped_records,
    hierarchy_outfile, chapters_outfile, log, fetched>>

extractVars ==
  <<lines, i, current_heading, current_heading_desc, current_subheading,
    current_subheading_desc, records, seen, emitted, origin, visited,
    absorbed>>

vars == <<pc, mainVars, extractVars>>

\* an output file before it is opened for writing
Unwritten == [written |-> FALSE, header |-> <<>>, rows |-> <<>>]

\* `text` before the first fetch returns
NoText == <<>>

Locals ==
  [ i                       |-> i,
    current_heading         |-> current_heading,
    current_heading_desc    |-> current_heading_desc,
    current_subheading      |-> current_subheading,
    current_subheading_desc |-> current_subheading_desc,
    records                 |-> records,
    seen                    |-> seen,
    emitted                 |-> emitted,
    origin                  |-> origin,
    visited                 |-> visited,
    absorbed                |-> absorbed ]

LocalsAre(st) ==
  /\ i = st.i
  /\ current_heading = st.current_heading
  /\ current_heading_desc = st.current_heading_desc
  /\ current_subheading = st.current_subheading
  /\ current_subheading_desc = st.current_subheading_desc
  /\ records = st.records
  /\ seen = st.seen
  /\ emitted = st.emitted
  /\ origin = st.origin
  /\ visited = st.visited
  /\ absorbed = st.absorbed

SetLocals(st) ==
  /\ i' = st.i
  /\ current_heading' = st.current_heading
  /\ current_heading_desc' = st.current_heading_desc
  /\ current_subheading' = st.current_subheading
  /\ current_subheading_desc' = st.current_subheading_desc
  /\ records' = st.records
  /\ seen' = st.seen
  /\ emitted' = st.emitted
  /\ origin' = st.origin
  /\ visited' = st.visited
  /\ absorbed' = st.absorbed

(***************************************************************************)
(* One call of extract_hierarchy_from_text, an iteration of the while loop *)
(* per step                                                                *)
(***************************************************************************)
MainIdle ==
  /\ text = NoText
  /\ all_records = <<>>
  /\ chapter_records = <<>>
  /\ deduped_records = <<>>
  /\ hierarchy_outfile = Unwritten
  /\ chapters_outfile = Unwritten
  /\ log = <<>>
  /\ fetched = <<>>

InitExtract ==
  /\ lines \in SeqsUpTo(HierarchyLines, MaxLines)
  /\ pc = "extract"
  /\ chapter \in ExtractChapters
  /\ LocalsAre(InitLocals)
  /\ MainIdle

InitCode ==
  /\ lines \in SeqsUpTo(CodeLines, MaxCodeLines)
  /\ pc = "extract"
  /\ chapter \in ExtractChapters
  /\ LocalsAre(InitLocals)
  /\ MainIdle

InLoop == pc = "extract" /\ i <= Len(lines)

CurrentLine == strip(lines[i])

Iterate(st) ==
  /\ SetLocals(st)
  /\ UNCHANGED <<pc, mainVars, lines>>

BlankLine ==
  /\ InLoop
  /\ CurrentLine = <<>>
  /\ Iterate(StepSkip(Locals))

HeaderLine ==
  /\ InLoop
  /\ CurrentLine # <<>>
  /\ IsHeaderLine(CurrentLine)
  /\ Iterate(StepSkip(Locals))

HeadingLine ==
  /\ InLoop
  /\ CurrentLine # <<>>
  /\ ~IsHeaderLine(CurrentLine)
  /\ IsHeadingLine(CurrentLine)
  /\ Iterate(StepHeading(lines, Locals))

SubheadingLine ==
  /\ InLoop
  /\ CurrentLine # <<>>
  /\ ~IsHeaderLine(CurrentLine)
  /\ ~IsHeadingLine(CurrentLine)
  /\ IsSubheadingLine(CurrentLine, current_heading)
  /\ Iterate(StepSubheading(lines, Locals))

CodesLine ==
  /\ InLoop
  /\ CurrentLine # <<>>
  /\ ~IsHeaderLine(CurrentLine)
  /\ ~IsHeadingLine(CurrentLine)
  /\ ~IsSubheadingLine(CurrentLine, current_heading)
  /\ Iterate(StepCodes(lines, format_02d(chapter), Locals))

ReturnRecords ==
  /\ pc = "extract"
  /\ i > Len(lines)
  /\ pc' = "returned"
  /\ UNCHANGED <<mainVars, extractVars>>

NextExtract ==
  \/ BlankLine
  \/ HeaderLine
  \/ HeadingLine
  \/ SubheadingLine
  \/ CodesLine
  \/ ReturnRecords

SpecExtract == InitExtract /\ [][NextExtract]_vars

SpecCode == InitCode /\ [][NextExtract]_vars

(***************************************************************************)
(* main                                                                    *)
(***************************************************************************)
\* range(1, 100): the model runs the loop over FirstChapter..LastChapter
FirstChapter == 1

\* stands for 99, the last value of range(1, 100)
LastChapter == 3

MiscLine == <<"H", "o", "r", "s", "e", "s">>

\* the texts fetch_chapter_text can return
TextHorses ==
  << ChapterTitle01, HeadingHeader, H0101, LiveHorses, S01012, MiscLine,
     Code21 \o Sp \o PureBred, Code21, OtherHorses,
     Code21 \o Sp \o PureBred >>

TextNoCodes == << Sp, <<"C", "H", "A", "P", "T", "E", "R", " ", "X">>,
                  LiveHorses >>

TextBare == << Code21, OtherHorses, Code21 \o Sp \o OtherHorses >>

Texts == {TextHorses, TextNoCodes, TextBare}

ExtractIdle ==
  /\ lines = <<>>
  /\ LocalsAre(InitLocals)

InitMain ==
  /\ pc = "fetch"
  /\ chapter = FirstChapter
  /\ MainIdle
  /\ ExtractIdle

\* the for statement takes the next value of range(1, 100), or ends
Advance ==
  IF chapter + 1 > LastChapter
    THEN pc' = "dedupe" /\ chapter' = chapter
    ELSE pc' = "fetch" /\ chapter' = chapter + 1

Fetching ==
  /\ pc = "fetch"
  /\ log' = Append(log, [kind |-> "fetch", chapter |-> chapter])

Outcome(status, t) == [chapter |-> chapter, status |-> status, text |-> t]

\* lines 163-165: fetch_chapter_text returns
FetchOk ==
  /\ Fetching
  /\ \E t \in Texts :
       /\ text' = t
       /\ fetched' = Append(fetched, Outcome("ok", t))
  /\ pc' = "body"
  /\ UNCHANGED <<chapter, all_records, chapter_records, deduped_records,
                 hierarchy_outfile, chapters_outfile, extractVars>>

\* variant: the handler appends a title row
FetchHTTPErrorAddsRow ==
  /\ Fetching
  /\ fetched' = Append(fetched, Outcome("HTTPError", <<>>))
  /\ chapter_records' =
       Append(chapter_records,
              [chapter |-> format_02d(chapter), chapter_title |-> <<>>])
  /\ Advance
  /\ UNCHANGED <<text, all_records, deduped_records,
                 hierarchy_outfile, chapters_outfile, extractVars>>

\* lines 166-168: fetch_chapter_text raises requests.HTTPError
FetchHTTPError ==
  /\ Fetching
  /\ fetched' = Append(fetched, Outcome("HTTPError", <<>>))
  /\ Advance
  /\ UNCHANGED <<text, all_records, chapter_records, deduped_records,
                 hierarchy_outfile, chapters_outfile, extractVars>>

\* variant: the handler fetches the same chapter again
FetchRequestErrorRetries ==
  /\ Fetching
  /\ fetched' = Append(fetched, Outcome("RequestException", <<>>))
  /\ pc' = "fetch"
  /\ UNCHANGED <<chapter, text, all_records, chapter_records,
                 deduped_records, hierarchy_outfile, chapters_outfile,
                 extractVars>>

\* lines 169-171: fetch_chapter_text raises another requests.RequestException
FetchRequestError ==
  /\ Fetching
  /\ fetched' = Append(fetched, Outcome("RequestException", <<>>))
  /\ Advance
  /\ UNCHANGED <<text, all_records, chapter_records, deduped_records,
                 hierarchy_outfile, chapters_outfile, extractVars>>

\* lines 173-185: the rest of the loop body
ChapterBody ==
  /\ pc = "body"
  /\ chapter_records' =
       Append(chapter_records,
              [chapter       |-> format_02d(chapter),
               chapter_title |-> extract_chapter_name(text, chapter)])
  /\ all_records' = all_records \o extract_hierarchy_from_text(text, chapter)
  /\ log' = Append(log, [kind |-> "body", chapter |-> chapter])
  /\ Advance
  /\ UNCHANGED <<text, deduped_records, hierarchy_outfile, chapters_outfile,
                 fetched, extractVars>>

\* lines 188-197
RECURSIVE DedupeFrom(_, _)
DedupeFrom(recs, acc) ==
  IF recs = <<>> THEN acc.out
  ELSE DedupeFrom(Tail(recs), AddIfNew(acc, Head(recs)))

GlobalDedupe ==
  /\ pc = "dedupe"
  /\ deduped_records' = DedupeFrom(all_records, [seen |-> {}, out |-> <<>>])
  /\ pc' = "write_hierarchy"
  /\ UNCHANGED <<chapter, text, all_records, chapter_records,
                 hierarchy_outfile, chapters_outfile, log, fetched,
                 extractVars>>

\* lines 211-219 and 228: the column order of the two tables
HierarchyFields ==
  <<"chapter", "heading", "heading_description", "subheading",
    "subheading_description", "code", "description">>

ChapterFields == <<"chapter", "chapter_title">>

\* csv.DictWriter: the values of a dict in the order of fieldnames
Row(rec, fieldnames) == [k \in 1..Len(fieldnames) |-> rec[fieldnames[k]]]

Rows(recs, fieldnames) == [n \in 1..Len(recs) |-> Row(recs[n], fieldnames)]

\* lines 208-222
WriteHierarchy ==
  /\ pc = "write_hierarchy"
  /\ hierarchy_outfile' =
       [written |-> TRUE, header |-> HierarchyFields,
        rows |-> Rows(deduped_records, HierarchyFields)]
  /\ log' = Append(log, [kind |-> "write_hierarchy", chapter |-> chapter])
  /\ pc' = "write_chapters"
  /\ UNCHANGED <<chapter, text, all_records, chapter_records,
                 deduped_records, chapters_outfile, fetched, extractVars>>

\* lines 227-230
WriteChapters ==
  /\ pc = "write_chapters"
  /\ chapters_outfile' =
       [written |-> TRUE, header |-> ChapterFields,
        rows |-> Rows(chapter_records, ChapterFields)]
  /\ log' = Append(log, [kind |-> "write_chapters", chapter |-> chapter])
  /\ pc' = "done"
  /\ UNCHANGED <<chapter, text, all_records, chapter_records,
                 deduped_records, hierarchy_outfile, fetched, extractVars>>

NextMain ==
  \/ FetchOk
  \/ FetchHTTPError
  \/ FetchRequestError
  \/ ChapterBody
  \/ GlobalDedupe
  \/ WriteHierarchy
  \/ WriteChapters

SpecMain == InitMain /\ [][NextMain]_vars

(***************************************************************************)
(* Properties                                                              *)
(***************************************************************************)
AllDigits(s) == \A k \in 1..Len(s) : s[k] \in Digit

IsPrefix(a, b) == Len(a) <= Len(b) /\ \A k \in 1..Len(a) : a[k] = b[k]

FourDigits(s) == Len(s) = 4 /\ AllDigits(s)

FiveDigits(s) == Len(s) = 5 /\ AllDigits(s)

Returned == pc = "returned"

\* the heading in force at line j: the last four-digit line before it
HeadingLinesBefore(j) == {h \in 1..(j - 1) : FourDigits(strip(lines[h]))}

ActiveHeading(j) ==
  IF HeadingLinesBefore(j) = {} THEN <<>>
  ELSE strip(lines[CHOOSE h \in HeadingLinesBefore(j) :
                     \A g \in HeadingLinesBefore(j) : g <= h])

\* C1: every record of extract_hierarchy_from_text carries the heading that
\* was in force at the line that emitted it, and a subheading that is empty
\* or five digits that start with that heading; the current subheading
\* extends the current heading at every point of the loop.
C1_SubheadingExtendsHeading ==
  /\ \A n \in 1..Len(records) :
       /\ records[n].heading = ActiveHeading(origin[n].line)
       /\ \/ records[n].subheading = <<>>
          \/ /\ FiveDigits(records[n].subheading)
             /\ IsPrefix(records[n].heading, records[n].subheading)
  /\ \/ current_subheading = <<>>
     \/ IsPrefix(current_heading, current_subheading)

\* a record under a subheading, then a heading line, then a record
C1_Witness ==
  /\ Returned
  /\ \E n1, n2 \in 1..Len(records) :
       /\ records[n1].subheading # <<>>
       /\ records[n2].subheading = <<>>
       /\ \E b \in 1..Len(lines) :
            /\ origin[n1].line < b /\ b < origin[n2].line
            /\ FourDigits(strip(lines[b]))

\* the 10-2-2 shape over digits and the wildcard
IsCodeShape(tok) ==
  /\ Len(tok) = 16
  /\ \A k \in 1..16 :
       IF k \in {11, 14} THEN tok[k] = "-" ELSE tok[k] \in Digit \cup {"*"}

HasCodeShape(s) ==
  \E p \in 1..Len(s) : p + 15 <= Len(s) /\ IsCodeShape(SubSeq(s, p, p + 15))

\* C5: the code of every record has the 10-2-2 shape and is read off the
\* line that emitted it; a line with no substring of that shape emits no
\* record.
C5_CodeShape ==
  \A n \in 1..Len(records) :
    /\ IsCodeShape(records[n].code)
    /\ HasCodeShape(lines[origin[n].line])
    /\ \E p \in 1..Len(lines[origin[n].line]) :
         SubSeq(lines[origin[n].line], p, p + 15) = records[n].code

\* a wildcard code is emitted while lines without the shape, and a line
\* whose only shaped substring lies inside a longer digit run, emit nothing
C5_Witness ==
  /\ Returned
  /\ \E n \in 1..Len(records) :
       \E k \in 1..16 : records[n].code[k] = "*"
  /\ \E j \in visited :
       /\ lines[j] \in {Code11, Code9 \o Sp \o Asses}
       /\ \A n \in 1..Len(records) : origin[n].line # j

\* a line that is a token of the 10-2-2 shape, alone or followed by a space
\* and text
TokenLine(line) ==
  \/ IsCodeShape(line)
  \/ /\ Len(line) > 17
     /\ IsCodeShape(SubSeq(line, 1, 16))
     /\ line[17] = " "
     /\ line[18] \in Letter

\* C6: a line that consists of a token of the 10-2-2 shape, with wildcards
\* in any positions, alone or followed by a space and description text,
\* yields a record whose code is that token.
C6_WildcardTokenEmitted ==
  Returned =>
    \A j \in 1..Len(lines) :
      TokenLine(lines[j]) =>
        \E n \in 1..Len(records) : records[n].code = SubSeq(lines[j], 1, 16)

\* d is rest without its leading white space and then without its leading
\* separator characters
StrippedOf(rest, d) ==
  \E a, b \in 0..Len(rest) :
    /\ a <= b
    /\ \A k \in 1..a : rest[k] \in Whitespace
    /\ a < Len(rest) => rest[a + 1] \notin Whitespace
    /\ \A k \in (a + 1)..b : rest[k] \in SeparatorChars
    /\ b < Len(rest) => rest[b + 1] \notin SeparatorChars
    /\ d = SubSeq(rest, b + 1, Len(rest))

\* C8: for every code match, the description is the rest of the line after
\* the match without its leading white space and separators; when that is
\* empty it is the whole next line if there is one and it does not start
\* with a code match, and empty otherwise.
C8_Description ==
  \A n \in 1..Len(emitted) :
    LET e    == emitted[n]
        line == strip(lines[e.from.line])
        rest == SubSeq(line, e.from.start + 16, Len(line))
        last == e.from.line = Len(lines)
        desc == e.rec.description
    IN  /\ e.rec.code = SubSeq(line, e.from.start, e.from.start + 15)
        /\ IF ~StrippedOf(rest, <<>>) THEN StrippedOf(rest, desc)
           ELSE IF last THEN desc = <<>>
           ELSE IF CODE_PATTERN_match(strip(lines[e.from.line + 1]))
             THEN desc = <<>>
           ELSE desc = strip(lines[e.from.line + 1])

\* one match whose description is cut out of its line behind separators,
\* and one that takes the next line
C8_Witness ==
  /\ Returned
  /\ \E n \in 1..Len(emitted) :
       LET line == strip(lines[emitted[n].from.line])
           rest == SubSeq(line, emitted[n].from.start + 16, Len(line))
       IN  /\ emitted[n].rec.description # <<>>
           /\ emitted[n].rec.description # rest
           /\ StrippedOf(rest, emitted[n].rec.description)
  /\ \E n \in 1..Len(emitted) :
       /\ emitted[n].from.line < Len(lines)
       /\ emitted[n].rec.description = OtherHorses
       /\ lines[emitted[n].from.line + 1] = OtherHorses

IsDescriptionLine(s) == s # <<>> /\ ~AllDigits(s) /\ ~CODE_PATTERN_match(s)

\* no four- or five-digit line strictly between lines a and b
NoLevelLineBetween(a, b) ==
  \A m \in (a + 1)..(b - 1) :
    ~FourDigits(strip(lines[m])) /\ ~FiveDigits(strip(lines[m]))

\* C7: a record emitted after a four-digit line H, with no heading or
\* subheading line in between, carries heading H, an empty subheading and
\* subheading description, and, when the line after H is non-empty,
\* non-numeric and no code match, that line as its heading description.
C7_HeadingContext ==
  \A n \in 1..Len(records) :
    \A h \in 1..Len(lines) :
      LET j == origin[n].line
      IN  (FourDigits(strip(lines[h])) /\ h < j /\ NoLevelLineBetween(h, j))
            => /\ records[n].heading = strip(lines[h])
               /\ records[n].subheading = <<>>
               /\ records[n].subheading_description = <<>>
               /\ (h + 1 < j /\ IsDescriptionLine(strip(lines[h + 1])))
                    => records[n].heading_description = strip(lines[h + 1])

C7_Witness ==
  /\ Returned
  /\ Len(lines) >= 3
  /\ lines[1] = H0101
  /\ lines[2] = LiveHorses
  /\ \E n \in 1..Len(records) :
       /\ origin[n].line >= 3
       /\ records[n].heading = H0101
       /\ records[n].heading_description = LiveHorses
       /\ records[n].subheading = <<>>

AbsorbedBy(steps) == {a.line : a \in {b \in absorbed : b.step \in steps}}

\* C9 as stated: a line taken as a description by the heading, the
\* subheading or the tariff-code branch is never read as lines[i].
C9_AbsorbedNeverVisited == AbsorbedBy({2, 3, 4}) \cap visited = {}

\* C9 as amended: the cursor passes every line once, in order; a line taken
\* as a description by the heading or the subheading branch is skipped, and
\* a line taken as a description by the tariff-code branch is the next line
\* the loop reads.
C9_OnlyHeadingLevelsSkip ==
  /\ AbsorbedBy({2, 3}) \cap visited = {}
  /\ AbsorbedBy({2, 3}) \cup visited = 1..(i - 1)
  /\ \A a \in AbsorbedBy({4}) : a <= i /\ (a < i => a \in visited)

C9_Witness ==
  /\ Returned
  /\ AbsorbedBy({2, 3}) # {}
  /\ AbsorbedBy({4}) \cap visited # {}

(***************************************************************************)
(* Properties of main                                                      *)
(***************************************************************************)
LoopDone == pc \in {"dedupe", "write_hierarchy", "write_chapters", "done"}

Succeeded == {n \in 1..Len(fetched) : fetched[n].status = "ok"}

Failed == {n \in 1..Len(fetched) : fetched[n].status # "ok"}

NoRepeat(seq) ==
  \A a, b \in 1..Len(seq) : a # b => seq[a] # seq[b]

\* C2: the rows of the hierarchy file, and the records they are written
\* from, hold no 7-tuple twice.
C2_NoDuplicateRows ==
  /\ NoRepeat(hierarchy_outfile.rows)
  /\ NoRepeat(deduped_records)

\* the file is written from a run in which one chapter repeated a code line
\* and two chapters returned the same text
C2_Witness ==
  /\ pc = "done"
  /\ Len(hierarchy_outfile.rows) >= 2
  /\ \E a, b \in Succeeded :
       a # b /\ fetched[a].text = TextHorses /\ fetched[b].text = TextHorses

RowsOfChapter(rows, c) ==
  {n \in 1..Len(rows) : rows[n][1] = format_02d(c)}

\* C3: a failed fetch is followed by the fetch of the next chapter, the loop
\* ends only after LastChapter has been attempted, the failed chapters have
\* no record and no title row, and every fetched chapter has one title row.
C3_FailedChapterSkipped ==
  /\ pc = "fetch" => Len(fetched) = chapter - 1
  /\ pc = "body" => Len(fetched) = chapter
  /\ LoopDone => Len(fetched) = LastChapter
  /\ \A n \in 1..Len(fetched) : fetched[n].chapter = n
  /\ \A n \in Failed :
       /\ \A m \in 1..Len(all_records) :
            all_records[m].chapter # format_02d(n)
       /\ \A m \in 1..Len(chapter_records) :
            chapter_records[m].chapter # format_02d(n)
       /\ RowsOfChapter(hierarchy_outfile.rows, n) = {}
       /\ RowsOfChapter(chapters_outfile.rows, n) = {}
  /\ pc = "done" =>
       \A n \in Succeeded :
         Cardinality(RowsOfChapter(chapters_outfile.rows, n)) = 1

\* a failed chapter, then a chapter with records, and a chapter without
C3_Witness ==
  /\ pc = "done"
  /\ \E a \in Failed :
       \E n \in Succeeded :
         n > a /\ RowsOfChapter(hierarchy_outfile.rows, n) # {}
  /\ \E n \in Succeeded :
       /\ RowsOfChapter(hierarchy_outfile.rows, n) = {}
       /\ Cardinality(RowsOfChapter(chapters_outfile.rows, n)) = 1

Fetches == SelectSeq(log, LAMBDA e : e.kind = "fetch")

\* C4: the k-th fetch is the fetch of chapter k; the body of a chapter is
\* run right after its fetch and before any other fetch; the files are
\* written, hierarchy first, after the fetch of LastChapter and after
\* every body.
C4_SequentialChapters ==
  /\ \A k \in 1..Len(Fetches) : Fetches[k].chapter = k
  /\ Len(Fetches) <= LastChapter
  /\ \A n \in 1..Len(log) :
       /\ log[n].kind = "body" =>
            /\ n > 1
            /\ log[n - 1] = [kind |-> "fetch", chapter |-> log[n].chapter]
       /\ log[n].kind \in {"write_hierarchy", "write_chapters"} =>
            /\ Len(SelectSeq(SubSeq(log, 1, n),
                             LAMBDA e : e.kind = "fetch")) = LastChapter
            /\ \A m \in (n + 1)..Len(log) :
                 log[m].kind \notin {"fetch", "body"}
  /\ hierarchy_outfile.written => Len(Fetches) = LastChapter
  /\ chapters_outfile.written => hierarchy_outfile.written

C4_Witness ==
  /\ pc = "done"
  /\ chapters_outfile.written
  /\ Failed # {}
  /\ Succeeded # {}
  /\ Len(log) > LastChapter + 2

RECURSIVE FirstOccurrences(_, _)
FirstOccurrences(seq, k) ==
  IF k = 0 THEN <<>>
  ELSE IF \E m \in 1..(k - 1) : seq[m] = seq[k]
    THEN FirstOccurrences(seq, k - 1)
    ELSE Append(FirstOccurrences(seq, k - 1), seq[k])

\* the lists extract_hierarchy_from_text returns for the fetched chapters
\* from the n-th fetch on, one after the other
RECURSIVE ExtractedFrom(_)
ExtractedFrom(n) ==
  IF n > Len(fetched) THEN <<>>
  ELSE (IF fetched[n].status = "ok"
          THEN extract_hierarchy_from_text(fetched[n].text, fetched[n].chapter)
          ELSE <<>>) \o ExtractedFrom(n + 1)

BuiltRecords(call) == [n \in 1..Len(call.emitted) |-> call.emitted[n].rec]

\* C10: the global pass leaves the accumulated list as it is, the hierarchy
\* file holds the lists of the fetched chapters in chapter order, and the
\* list of a chapter is the first occurrences, in order, of the records its
\* matches built.
C10_GlobalDedupeRedundant ==
  /\ pc \in {"write_hierarchy", "write_chapters", "done"} =>
       /\ deduped_records = all_records
       /\ deduped_records = ExtractedFrom(1)
  /\ hierarchy_outfile.written =>
       hierarchy_outfile.rows = Rows(ExtractedFrom(1), HierarchyFields)
  /\ \A n \in Succeeded :
       LET call == ExtractCall(fetched[n].text, fetched[n].chapter)
       IN  call.records =
             FirstOccurrences(BuiltRecords(call), Len(call.emitted))

\* two chapters return the same text, whose records differ in the chapter
\* only, and that text repeats a code line
C10_Witness ==
  /\ pc = "done"
  /\ \E a, b \in Succeeded :
       /\ a < b
       /\ fetched[a].text = TextHorses
       /\ fetched[b].text = TextHorses
       /\ Len(ExtractCall(TextHorses, a).emitted)
            > Len(ExtractCall(TextHorses, a).records)
       /\ \E x, y \in 1..Len(hierarchy_outfile.rows) :
            /\ x < y
            /\ hierarchy_outfile.rows[x][1] = format_02d(a)
            /\ hierarchy_outfile.rows[y][1] = format_02d(b)
            /\ hierarchy_outfile.rows[x][6] = hierarchy_outfile.rows[y][6]

====
